---- MODULE Spec2Model ----
(***************************************************************************)
(* Model of the transaction normalisation and reconciliation pipeline of   *)
(* the financial management dashboard (src/app.py): the uploaded Sales,    *)
(* Expenses and COA tables, prepare_transactions (the ledger builder) and  *)
(* generate_pnl (the P&L aggregator), the KPI and product performance      *)
(* sections, the reconciliation workbook of the page, the insight sections *)
(* (src/dynamic_insights.py) and the batch script of the same              *)
(* transformation (src/finance_automation.py).                             *)
(*                                                                         *)
(* Tables are sequences of records (one record per row, one field per      *)
(* column); the empty sequence stands for a file not uploaded yet.  The    *)
(* columns Customer and Region of the Sales table are carried through by   *)
(* the code untouched and read by no step modelled here; they are left out *)
(* of the rows.                                                            *)
(***************************************************************************)
EXTENDS Integers, Sequences, FiniteSets, TLC

VARIABLES
    sales,                  \* the uploaded Sales table (raw rows)
    expenses,               \* the uploaded Expenses table (raw rows)
    coa,                    \* the uploaded COA table (raw rows)
    pc,                     \* position of the page run of main()
    error,                  \* the exception that aborted the run, or None
    transactions,           \* the ledger returned by prepare_transactions
    unmapped_categories,    \* transactions._unmapped_categories
    unmapped_transactions,  \* transactions._unmapped_transaction
    pnl,                    \* the P&L table returned by generate_pnl
    missing_accounts,       \* pnl._missing_accounts
    insights,               \* the argument of format_insights_for_dashboard
    formatted,              \* the list format_insights_for_dashboard returned
    session_state,          \* st.session_state: the three insight slots of a session
    request,                \* the last insight request: its slot and its failure
    rendered,               \* the text st.markdown showed in each insights section
    ipc,                    \* position of the session's page: fresh, rendered, aborted
    spc,                    \* position of each session's run in the reconciliation section
    findings,               \* the reconciliation findings of each session's run
    report_file,            \* reconciliation_report.xlsx in the server's directory
    offered,                \* the workbook each session's download button holds
    mom_growth,             \* the month-over-month growth the KPI section shows
    top_10,                 \* the rows of the chart "Top 10 Products by Revenue"
    top_products,           \* the rows of the list "Top 5 Revenue Generators"
    bottom_products         \* the rows of the list "Bottom 5 Products"

\* the variables of the page run from the uploads to the P&L table
pipeVars == <<sales, expenses, coa, pc, error, transactions,
              unmapped_categories, unmapped_transactions, pnl, missing_accounts>>

\* the variables of a call of format_insights_for_dashboard
fmtVars == <<insights, formatted>>

\* the variables of the insight sections of one session
insVars == <<session_state, request, rendered, ipc>>

\* the variables of the reconciliation section of concurrent sessions
sessVars == <<spc, findings, report_file, offered>>

\* the variables of the KPI section and of the product performance tabs
kpiVars == <<mom_growth, top_10, top_products, bottom_products>>

\* the variables the page run from the uploads to the P&L table leaves alone
pageVars == <<fmtVars, insVars, sessVars, kpiVars>>

vars == <<pipeVars, pageVars>>

----------------------------------------------------------------------------
(* Bounds of the model *)

\* rows of the Sales and Expenses files together (each file holds at least one)
MaxRows == 3
\* rows of the COA file
MaxCoa == 2
\* lines of a list handed to format_insights_for_dashboard
MaxLines == 3
\* lines of a reply of the insight service
MaxReplyLines == 1
\* concurrent dashboard sessions
NumSessions == 2
\* products of a Sales file of the product performance tabs
MaxProducts == 6

----------------------------------------------------------------------------
(* Cell values *)

\* Python None / a null cell of a text column
None == "None"

\* a numeric cell
Num(n) == [tag |-> "num", val |-> n]
\* a cell holding text that is not a number
Str == [tag |-> "str", val |-> 0]
\* NaN, the null marker of a numeric column
NaN == [tag |-> "nan", val |-> 0]

\* a Date cell the date parser rejects
BadDate == "not a date"

\* what pandas' date parser makes of a Date cell it accepts
ParseDate(s) ==
    CASE s = "2023-12-10" -> [year |-> 2023, month |-> 12, day |-> 10]
      [] s = "2024-01-15" -> [year |-> 2024, month |-> 1, day |-> 15]
      [] s = "2024-01-20" -> [year |-> 2024, month |-> 1, day |-> 20]

Parseable(s) == s \in {"2023-12-10", "2024-01-15", "2024-01-20"}

\* the rows a Sales file may hold: well-formed rows, a row with a text Total and a
\* row with a Date that is no date
SalesRows ==
    [Date: {"2023-12-10", "2024-01-15"}, Category: {"Jewelry", "Rent", "Misc"},
     Product: {"Ring", "Necklace"}, Total: {Num(1000)}, InvoiceNo: {"INV-1"}]
    \cup
    { [Date |-> "2024-01-15", Category |-> "Jewelry", Product |-> "Ring",
       Total |-> Str, InvoiceNo |-> "INV-1"],
      [Date |-> BadDate, Category |-> "Jewelry", Product |-> "Ring",
       Total |-> Num(1000), InvoiceNo |-> "INV-1"] }

\* the rows an Expenses file may hold: well-formed rows (a negative Amount is a
\* refund) and a row with a text Amount
ExpenseRows ==
    [Date: {"2024-01-15", "2024-01-20"}, ExpenseType: {"Rent", "Product Cost"},
     Description: {"monthly"}, Amount: {Num(300), Num(-50)}]
    \cup
    { [Date |-> "2024-01-20", ExpenseType |-> "Rent", Description |-> "monthly",
       Amount |-> Str] }

\* the rows a COA file may hold: entries of three categories, an entry with an empty
\* AccountType cell and an entry with an empty Category cell
CoaRows ==
    { [Category |-> "Jewelry Sales", AccountType |-> "Revenue", Account |-> Num(100)],
      [Category |-> "Rent",          AccountType |-> "OPEX",    Account |-> Num(200)],
      [Category |-> "Product Cost",  AccountType |-> "COGS",    Account |-> Num(300)],
      [Category |-> "Product Cost",  AccountType |-> None,      Account |-> Num(301)],
      [Category |-> None,            AccountType |-> "OPEX",    Account |-> Num(400)] }

\* the tables of 1 to n rows drawn from R
Tables(R, n) == UNION {[1..k -> R] : k \in 1..n}

----------------------------------------------------------------------------
(* Sequence helpers *)

\* the elements of s at the indices I, in the order of s
Pick(s, I) ==
    LET n == Cardinality(I)
        at == [k \in 1..n |-> CHOOSE i \in I : Cardinality({j \in I : j < i}) = k - 1]
    IN  [k \in 1..n |-> s[at[k]]]

Range(s) == {s[i] : i \in 1..Len(s)}

RECURSIVE Flatten(_)
Flatten(ss) == IF ss = <<>> THEN <<>> ELSE Head(ss) \o Flatten(Tail(ss))

\* the values of the columns subset of the row r
KeyOf(r, subset) == [k \in 1..Len(subset) |-> r[subset[k]]]

\* a variant of drop_duplicates: keep='last'
drop_duplicates_keep_last(s, subset) ==
    Pick(s, {i \in 1..Len(s) :
                \A j \in (i + 1)..Len(s) : KeyOf(s[j], subset) # KeyOf(s[i], subset)})

\* DataFrame.drop_duplicates(subset=subset, keep='first')
drop_duplicates(s, subset) ==
    Pick(s, {i \in 1..Len(s) :
                \A j \in 1..(i - 1) : KeyOf(s[j], subset) # KeyOf(s[i], subset)})

----------------------------------------------------------------------------
(* prepare_transactions *)

StandardizeSales(r) ==
    [Date |-> r.Date, Category |-> r.Category, Product |-> r.Product,
     Description |-> None, Amount |-> r.Total, InvoiceNo |-> r.InvoiceNo,
     Source_Type |-> "Sales"]

StandardizeExpense(r) ==
    [Date |-> r.Date, Category |-> r.ExpenseType, Product |-> None,
     Description |-> r.Description, Amount |-> r.Amount, InvoiceNo |-> None,
     Source_Type |-> "Expense"]

\* the subset= of the four drop_duplicates calls
SalesKey == <<"Date", "InvoiceNo", "Product", "Amount">>
ExpenseKey == <<"Date", "Category", "Description", "Amount">>
CoaKey == <<"Category", "Account">>
\* a variant of MergedKey: the joined Account taken into the key
MergedKey_with_account == <<"Date", "InvoiceNo", "Amount", "Source_Type", "Account">>
MergedKey == <<"Date", "InvoiceNo", "Amount", "Source_Type">>

\* unary minus of Python: defined on numbers (NaN included), a TypeError on text
NegRaises(a) == a.tag = "str"
Neg(a) == IF a.tag = "num" THEN Num(-a.val) ELSE a

\* a variant of MakeExpensesNegative: the Amount left as uploaded
MakeExpensesNegative_unsigned(r) == r

\* the lambda of the apply: -x["Amount"] if x["Source_Type"] == "Expense"
MakeExpensesNegative(r) ==
    IF r.Source_Type = "Expense" THEN [r EXCEPT !.Amount = Neg(r.Amount)] ELSE r

\* pd.to_numeric(..., errors='coerce') of one cell
to_numeric(a) == IF a.tag = "num" THEN a ELSE NaN

category_mapping ==
    [k \in {"Jewelry", "Salaries", "Supplies", "Marketing", "Delivery", "Rent",
            "Utilities", "Product Cost"} |->
        IF k = "Jewelry" THEN "Jewelry Sales" ELSE k]

\* a variant of MapCategory: the merge keyed on Category itself
MapCategory_unmapped(c) == c

\* Series.map(category_mapping) of one cell
MapCategory(c) == IF c \in DOMAIN category_mapping THEN category_mapping[c] ELSE None

Digit(d) == <<"0", "1", "2", "3", "4", "5", "6", "7", "8", "9">>[d + 1]

\* dt.to_period('M').astype(str): "YYYY-MM"
PeriodOf(d) ==
    Digit(d.year \div 1000) \o Digit((d.year \div 100) % 10)
        \o Digit((d.year \div 10) % 10) \o Digit(d.year % 10)
        \o "-" \o Digit(d.month \div 10) \o Digit(d.month % 10)

\* the rows a ledger row becomes in the left merge with the COA; pandas matches a null
\* key of the left table to a null key of the right table
MergeRow(r, c) ==
    LET m == Pick(c, {i \in 1..Len(c) : c[i].Category = r.Category_COA})
        base == [Date |-> r.Date, Category |-> r.Category, Product |-> r.Product,
                 Description |-> r.Description, Amount |-> r.Amount,
                 InvoiceNo |-> r.InvoiceNo, Source_Type |-> r.Source_Type,
                 Category_COA |-> r.Category_COA]
        With(at, ac) == [f \in DOMAIN base \cup {"AccountType", "Account"} |->
                            IF f = "AccountType" THEN at
                            ELSE IF f = "Account" THEN ac ELSE base[f]]
    IN  IF m = <<>> THEN <<With(None, NaN)>>
        ELSE [i \in 1..Len(m) |-> With(m[i].AccountType, to_numeric(m[i].Account))]

AddTimeDimensions(r) ==
    [f \in DOMAIN r \cup {"Year", "Month", "Period"} |->
        IF f = "Year" THEN r.Date.year
        ELSE IF f = "Month" THEN r.Date.month
        ELSE IF f = "Period" THEN PeriodOf(r.Date) ELSE r[f]]

\* a variant of ExistingCategories: the column Category_COA read in its place
ExistingCategories_coa(ledger) == {ledger[i].Category_COA : i \in 1..Len(ledger)}

\* set(transactions_merged['Category'].unique())
ExistingCategories(ledger) == {ledger[i].Category : i \in 1..Len(ledger)}

\* unmapped_categories = existing_categories - mapped_categories
UnmappedCategories(existing, mapped) == existing \ mapped

\* a variant of UnmappedTransactions: the difference taken in the direction of
\* UnmappedCategories
UnmappedTransactions_same_direction(mapped, existing) == existing \ mapped

\* unmapped_transactions = mapped_categories - existing_categories
UnmappedTransactions(mapped, existing) == mapped \ existing

\* a variant of ArgumentAfter: the body working on the caller's table itself
ArgumentAfter_in_place(arg, local) == local

\* the caller's table arg after the call: rename() and drop_duplicates() return a new
\* table, the name of the parameter is bound to it, and the column assignments
\* that follow work on that table local
ArgumentAfter(arg, local) == arg

\* a variant of concat: the Expenses block put first
concat_expenses_first(s, e) == e \o s

\* pd.concat([sales, expenses], ignore_index=True)
concat(s, e) == s \o e

\* the value prepare_transactions returns for the tables s, e, c, or the exception it raises
prepare_transactions(s, e, c) ==
    LET sales1 == drop_duplicates([i \in 1..Len(s) |-> StandardizeSales(s[i])], SalesKey)
        expenses1 == drop_duplicates([i \in 1..Len(e) |-> StandardizeExpense(e[i])],
                                     ExpenseKey)
        coa1 == drop_duplicates(c, CoaKey)
        combined == concat(sales1, expenses1)
        negated == [i \in 1..Len(combined) |-> MakeExpensesNegative(combined[i])]
        dated == [i \in 1..Len(negated) |->
                    [negated[i] EXCEPT !.Date = ParseDate(@), !.Amount = to_numeric(@)]]
        mapped == [i \in 1..Len(dated) |->
                    [f \in DOMAIN dated[i] \cup {"Category_COA"} |->
                        IF f = "Category_COA" THEN MapCategory(dated[i].Category)
                        ELSE dated[i][f]]]
        merged == Flatten([i \in 1..Len(mapped) |-> MergeRow(mapped[i], coa1)])
        deduped == drop_duplicates(merged, MergedKey)
        ledger == [i \in 1..Len(deduped) |-> AddTimeDimensions(deduped[i])]
        mapped_categories == DOMAIN category_mapping
        existing_categories == ExistingCategories(ledger)
        arguments ==
            [sales |-> ArgumentAfter(s, [i \in 1..Len(s) |-> StandardizeSales(s[i])]),
             expenses |->
                 ArgumentAfter(e, [i \in 1..Len(e) |-> StandardizeExpense(e[i])]),
             coa |-> ArgumentAfter(c, coa1)]
    IN  IF \E i \in 1..Len(combined) :
            combined[i].Source_Type = "Expense" /\ NegRaises(combined[i].Amount)
        THEN [raised |-> "TypeError", ledger |-> <<>>, arguments |-> arguments,
              unmapped_categories |-> {}, unmapped_transactions |-> {}]
        ELSE IF \E i \in 1..Len(negated) : ~Parseable(negated[i].Date)
        THEN [raised |-> "ValueError", ledger |-> <<>>, arguments |-> arguments,
              unmapped_categories |-> {}, unmapped_transactions |-> {}]
        ELSE [raised |-> None, ledger |-> ledger, arguments |-> arguments,
              unmapped_categories |->
                  UnmappedCategories(existing_categories, mapped_categories),
              unmapped_transactions |->
                  UnmappedTransactions(mapped_categories, existing_categories)]

----------------------------------------------------------------------------
(* generate_pnl *)

RECURSIVE SumAmounts(_)
\* Series.sum() of the Amount column: NaN counts as 0
SumAmounts(rows) ==
    IF rows = <<>> THEN 0
    ELSE (IF Head(rows).Amount.tag = "num" THEN Head(rows).Amount.val ELSE 0)
            + SumAmounts(Tail(rows))

Abs(x) == IF x < 0 THEN -x ELSE x

\* rows of the ledger the pivot groups: a null AccountType is dropped by the group-by
Grouped(tx) == SelectSeq(tx, LAMBDA r : r.AccountType # None)

PivotKeys(tx) == {<<r.Year, r.Month, r.Period>> : r \in Range(Grouped(tx))}

\* the cell of the pivot at (key, acct); fill_value=0 and the added columns give 0
PivotCell(tx, key, acct) ==
    SumAmounts(SelectSeq(tx, LAMBDA r :
        r.AccountType = acct /\ <<r.Year, r.Month, r.Period>> = key))

\* a variant of KeyLess: the table sorted by ['Month', 'Year']
KeyLess_month_first(a, b) == a[2] < b[2] \/ (a[2] = b[2] /\ a[1] < b[1])

\* the order of sort_values(['Year', 'Month'])
KeyLess(a, b) == a[1] < b[1] \/ (a[1] = b[1] /\ a[2] < b[2])

RECURSIVE SortKeys(_)
\* the keys in ascending (Year, Month) order
SortKeys(K) ==
    IF K = {} THEN <<>>
    ELSE LET k == CHOOSE x \in K : \A y \in K \ {x} : ~KeyLess(y, x)
         IN  <<k>> \o SortKeys(K \ {k})

\* a variant of PnlOpex: the absolute value left out
PnlOpex_signed(opex) == opex

\* pnl['OPEX'] = abs(pnl.get('OPEX', 0))
PnlOpex(opex) == Abs(opex)

\* a variant of PnlExpense: the absolute value left out
PnlExpense_signed(opex, cogs) == opex + cogs

\* pnl['Expense'] = abs(pnl.get('OPEX', 0) + pnl.get('COGS', 0)), OPEX being PnlOpex
PnlExpense(opex, cogs) == Abs(opex + cogs)

\* pnl['Net Profit'] = pnl.get('Revenue', 0) - pnl['Expense']
PnlNetProfit(revenue, expense) == revenue - expense

\* a variant of PnlMargin: the replace(0, 1) left out
PnlMargin_no_replace(net_profit, revenue) == [num |-> net_profit * 100, den |-> revenue]

\* pnl['Margin (%)'] = (Net Profit / Revenue.replace(0, 1)) * 100, as the fraction
\* num / den
PnlMargin(net_profit, revenue) ==
    [num |-> net_profit * 100, den |-> IF revenue = 0 THEN 1 ELSE revenue]

PnlRow(tx, key) ==
    LET Revenue == PivotCell(tx, key, "Revenue")
        OPEX == PnlOpex(PivotCell(tx, key, "OPEX"))
        COGS == PivotCell(tx, key, "COGS")
        Expense == PnlExpense(OPEX, COGS)
        NetProfit == PnlNetProfit(Revenue, Expense)
    IN  [Year |-> key[1], Month |-> key[2], Period |-> key[3],
         Revenue |-> Revenue, OPEX |-> OPEX, COGS |-> COGS,
         Expense |-> Expense, NetProfit |-> NetProfit,
         Margin |-> PnlMargin(NetProfit, Revenue)]

\* a variant of ExpectedTypes: the dropna() left out
ExpectedTypes_with_null(c) == {c[i].AccountType : i \in 1..Len(c)}

\* expected_types = list(set(coa['AccountType'].dropna()))
ExpectedTypes(c) == {c[i].AccountType : i \in 1..Len(c)} \ {None}

generate_pnl(tx, c) ==
    LET keys == SortKeys(PivotKeys(tx))
        expected_types == ExpectedTypes(c)
        existing_types == {tx[i].AccountType : i \in 1..Len(tx)} \ {None}
    IN  [pnl |-> [i \in 1..Len(keys) |-> PnlRow(tx, keys[i])],
         missing_accounts |-> expected_types \ existing_types]

----------------------------------------------------------------------------
(* The batch script, finance_automation.py *)

\* Year and Month of a merged row; the batch ledger has no Period column
AddYearMonth(r) ==
    [f \in DOMAIN r \cup {"Year", "Month"} |->
        IF f = "Year" THEN r.Date.year
        ELSE IF f = "Month" THEN r.Date.month ELSE r[f]]

\* the ledger load_and_clean_data returns for the files s, e, c, or the exception it
\* raises: the steps of prepare_transactions without any drop_duplicates
load_and_clean_data(s, e, c) ==
    LET sales1 == [i \in 1..Len(s) |-> StandardizeSales(s[i])]
        expenses1 == [i \in 1..Len(e) |-> StandardizeExpense(e[i])]
        combined == sales1 \o expenses1
        negated == [i \in 1..Len(combined) |->
                      IF combined[i].Source_Type = "Expense"
                      THEN [combined[i] EXCEPT !.Amount = Neg(@)] ELSE combined[i]]
        dated == [i \in 1..Len(negated) |->
                    [negated[i] EXCEPT !.Date = ParseDate(@), !.Amount = to_numeric(@)]]
        mapped == [i \in 1..Len(dated) |->
                    [f \in DOMAIN dated[i] \cup {"Category_COA"} |->
                        IF f = "Category_COA"
                        THEN (IF dated[i].Category \in DOMAIN category_mapping
                              THEN category_mapping[dated[i].Category] ELSE None)
                        ELSE dated[i][f]]]
        merged == Flatten([i \in 1..Len(mapped) |-> MergeRow(mapped[i], c)])
    IN  IF \E i \in 1..Len(combined) :
            combined[i].Source_Type = "Expense" /\ NegRaises(combined[i].Amount)
        THEN [raised |-> "TypeError", ledger |-> <<>>]
        ELSE IF \E i \in 1..Len(negated) : ~Parseable(negated[i].Date)
        THEN [raised |-> "ValueError", ledger |-> <<>>]
        ELSE [raised |-> None,
              ledger |-> [i \in 1..Len(merged) |-> AddYearMonth(merged[i])]]

\* the cell of the batch pivot at (key, acct), key being (Year, Month)
BatchPivotCell(tx, key, acct) ==
    SumAmounts(SelectSeq(tx, LAMBDA r :
        r.AccountType = acct /\ <<r.Year, r.Month>> = key))

\* the columns of the batch pivot after the expected types were added: the
\* AccountTypes of the ledger and those of the COA file
BatchColumns(tx, c) ==
    ({tx[i].AccountType : i \in 1..Len(tx)} \ {None})
        \cup {c[i].AccountType : i \in 1..Len(c)}

\* the P&L table the batch generate_pnl returns for the ledger tx and the COA file
\* c, or the KeyError of reading a column the table does not have
batch_generate_pnl(tx, c) ==
    LET keys == SortKeys({<<r.Year, r.Month>> : r \in Range(Grouped(tx))})
        Row(key) ==
            LET Revenue == BatchPivotCell(tx, key, "Revenue")
                OPEX == BatchPivotCell(tx, key, "OPEX")
                COGS == BatchPivotCell(tx, key, "COGS")
                Expense == Abs(OPEX + COGS)
            IN  [Year |-> key[1], Month |-> key[2], Revenue |-> Revenue,
                 OPEX |-> OPEX, COGS |-> COGS, Expense |-> Expense,
                 NetProfit |-> Revenue - Expense]
    IN  IF {"OPEX", "COGS", "Revenue"} \subseteq BatchColumns(tx, c)
        THEN [raised |-> None, pnl |-> [i \in 1..Len(keys) |-> Row(keys[i])]]
        ELSE [raised |-> "KeyError", pnl |-> <<>>]

----------------------------------------------------------------------------
(* calculate_mom_growth *)

\* the value of "return 0", as the fraction num / den
NoGrowth == [num |-> 0, den |-> 1]

\* a variant of calculate_mom_growth: the two rows read in the other order
calculate_mom_growth_swapped(p) ==
    IF Len(p) < 2 THEN NoGrowth
    ELSE LET current == p[Len(p) - 1].Revenue
             previous == p[Len(p)].Revenue
         IN  IF previous = 0 THEN NoGrowth
             ELSE [num |-> (current - previous) * 100, den |-> previous]

\* the growth of Revenue between the last two rows of the P&L table p, as the
\* fraction num / den
calculate_mom_growth(p) ==
    IF Len(p) < 2 THEN NoGrowth
    ELSE LET current == p[Len(p)].Revenue
             previous == p[Len(p) - 1].Revenue
         IN  IF previous = 0 THEN NoGrowth
             ELSE [num |-> (current - previous) * 100, den |-> previous]

----------------------------------------------------------------------------
(* Product performance *)

\* DataFrame.head(n) and DataFrame.tail(n)
head(s, n) == SubSeq(s, 1, IF n < Len(s) THEN n ELSE Len(s))
tail(s, n) == SubSeq(s, IF n < Len(s) THEN Len(s) - n + 1 ELSE 1, Len(s))

RECURSIVE SortByRevenue(_, _)
\* sort_values('Revenue', ascending=ascending) of a set of rows
SortByRevenue(rows, ascending) ==
    IF rows = {} THEN <<>>
    ELSE LET r == CHOOSE x \in rows : \A y \in rows :
                     IF ascending THEN x.Revenue <= y.Revenue
                     ELSE x.Revenue >= y.Revenue
         IN  <<r>> \o SortByRevenue(rows \ {r}, ascending)

\* the Sales rows of the ledger grouped by Product (a null Product is no group):
\* the sum of Amount and the count of InvoiceNo of each group, sorted ascending
\* by Revenue
product_perf(tx) ==
    LET product_data == SelectSeq(tx, LAMBDA r : r.Source_Type = "Sales")
        products == {product_data[i].Product : i \in 1..Len(product_data)} \ {None}
        Group(p) == SelectSeq(product_data, LAMBDA r : r.Product = p)
    IN  SortByRevenue(
            {[Product |-> p, Revenue |-> SumAmounts(Group(p)),
              Transactions |-> Len(SelectSeq(Group(p), LAMBDA r : r.InvoiceNo # None))]
                : p \in products}, TRUE)

----------------------------------------------------------------------------
(* Text *)

\* A text is a sequence of tokens; a token is a character the code treats on its own
\* ("*", "-", ":", "$", a blank, a line break) or a run of other characters.

Whitespace == {" ", "\n"}

RECURSIVE LStripChars(_, _)
\* str.lstrip(chars)
LStripChars(t, chars) ==
    IF t # <<>> /\ Head(t) \in chars THEN LStripChars(Tail(t), chars) ELSE t

RECURSIVE RStripChars(_, _)
\* str.rstrip(chars)
RStripChars(t, chars) ==
    IF t # <<>> /\ t[Len(t)] \in chars
    THEN RStripChars(SubSeq(t, 1, Len(t) - 1), chars) ELSE t

\* str.strip(chars)
StripChars(t, chars) == RStripChars(LStripChars(t, chars), chars)

\* str.strip()
Strip(t) == StripChars(t, Whitespace)

\* str.lower() of one token
Lower(tok) ==
    CASE tok \in {"Headline Insight", "HEADLINE INSIGHT"} -> "headline insight"
      [] tok = "Brief Explanation" -> "brief explanation"
      [] tok = "Actionable Recommendation" -> "actionable recommendation"
      [] tok = "Here" -> "here"
      [] OTHER -> tok

\* str.lower()
LowerText(t) == [i \in 1..Len(t) |-> Lower(t[i])]

\* str.startswith(prefix), the prefix being one token
StartsWith(t, prefix) == t # <<>> /\ Head(t) = prefix

\* str.split(":", 1)[-1]
AfterColon(t) ==
    LET I == {i \in 1..Len(t) : t[i] = ":"}
    IN  IF I = {} THEN t
        ELSE SubSeq(t, (CHOOSE i \in I : \A j \in I : i <= j) + 1, Len(t))

\* re.sub(r'\*+', '', t)
RemoveStars(t) == SelectSeq(t, LAMBDA tok : tok # "*")

RECURSIVE ReplaceDollar(_)
\* str.replace('$', 'IDR ')
ReplaceDollar(t) ==
    IF t = <<>> THEN <<>>
    ELSE (IF Head(t) = "$" THEN <<"IDR", " ">> ELSE <<Head(t)>>) \o ReplaceDollar(Tail(t))

----------------------------------------------------------------------------
(* format_insights_for_dashboard *)

\* the argument None
NoInsights == [null |-> TRUE, lines |-> <<>>]

\* the argument that is a list of lines
InsightList(l) == [null |-> FALSE, lines |-> l]

\* re.sub(r'\*+', '', line_clean.split(":", 1)[-1].strip()).strip()
CleanBody(line_clean) == Strip(RemoveStars(Strip(AfterColon(line_clean))))

\* f"### {current_headline_clean}\n\n{brief_clean}\n\n{action_clean}\n\n"
InsightBlock(st) ==
    <<"###", " ">> \o st.headline \o <<"\n", "\n">> \o st.brief \o <<"\n", "\n">>
        \o st.action \o <<"\n", "\n">>

\* the body of the loop over the lines: st holds formatted_text,
\* current_headline_clean, brief_clean and action_clean
FormatLine(st, line) ==
    LET line_clean == Strip(LStripChars(line, {"*"}))
        low == LowerText(line_clean)
    IN  IF StartsWith(low, "headline insight")
        THEN LET flushed == IF st.headline # <<>>
                            THEN [st EXCEPT !.text = @ \o InsightBlock(st),
                                            !.brief = <<>>, !.action = <<>>]
                            ELSE st
             IN  [flushed EXCEPT !.headline = CleanBody(line_clean)]
        ELSE IF StartsWith(low, "brief explanation")
        THEN [st EXCEPT !.brief = CleanBody(line_clean)]
        ELSE IF StartsWith(low, "actionable recommendation")
        THEN [st EXCEPT !.action = <<">", " ", "**Recommendation:**", " ">>
                                      \o CleanBody(line_clean)]
        ELSE st

RECURSIVE FormatLines(_, _)
\* for line in insights
FormatLines(st, lines) ==
    IF lines = <<>> THEN st ELSE FormatLines(FormatLine(st, Head(lines)), Tail(lines))

\* a variant of format_insights_for_dashboard: the test "if not insights" left out
format_insights_unguarded(ins) ==
    LET st == FormatLines([text |-> <<>>, headline |-> <<>>, brief |-> <<>>,
                           action |-> <<>>], ins.lines)
        formatted_text == IF st.headline # <<>>
                          THEN ReplaceDollar(st.text \o InsightBlock(st))
                          ELSE st.text
    IN  <<Strip(formatted_text)>>

\* the list format_insights_for_dashboard returns
format_insights_for_dashboard(ins) ==
    IF ins.null \/ ins.lines = <<>>
    THEN << <<"No insights available.">> >>
    ELSE LET st == FormatLines([text |-> <<>>, headline |-> <<>>, brief |-> <<>>,
                                action |-> <<>>], ins.lines)
             formatted_text == IF st.headline # <<>>
                               THEN ReplaceDollar(st.text \o InsightBlock(st))
                               ELSE st.text
         IN  <<Strip(formatted_text)>>

----------------------------------------------------------------------------
(* The states of the parts of the page that have not run *)

Slots == {"financial_insights", "revenue_insights", "expense_insights"}

Sessions == 1..NumSessions

\* a slot that st.session_state does not hold
Absent == [present |-> FALSE, null |-> TRUE, lines |-> <<>>]

\* no request sent yet
NoRequest == [slot |-> None, failure |-> None]

\* no file, no workbook
NoFile == [exists |-> FALSE, sheet_names |-> {}, unmapped_categories |-> {},
           affected_transactions |-> <<>>, missing_accounts |-> {},
           missing_categories |-> {}, summary |-> <<>>]

\* no findings computed yet
NoFindings == [unmapped_categories |-> {}, affected_transactions |-> <<>>,
               missing_accounts |-> {}, unmapped_transactions |-> {}]

PipeIdle ==
    /\ sales = <<>>
    /\ expenses = <<>>
    /\ coa = <<>>
    /\ pc = "upload"
    /\ error = None
    /\ transactions = <<>>
    /\ unmapped_categories = {}
    /\ unmapped_transactions = {}
    /\ pnl = <<>>
    /\ missing_accounts = {}

FmtIdle ==
    /\ insights = NoInsights
    /\ formatted = <<>>

InsIdle ==
    /\ session_state = [k \in Slots |-> Absent]
    /\ request = NoRequest
    /\ rendered = [k \in Slots |-> <<>>]
    /\ ipc = "fresh"

KpiIdle ==
    /\ mom_growth = NoGrowth
    /\ top_10 = <<>>
    /\ top_products = <<>>
    /\ bottom_products = <<>>

SessIdle ==
    /\ spc = [u \in Sessions |-> "idle"]
    /\ findings = [u \in Sessions |-> NoFindings]
    /\ report_file = NoFile
    /\ offered = [u \in Sessions |-> NoFile]

----------------------------------------------------------------------------
(* A call of format_insights_for_dashboard *)

\* the lines a list may hold: well-formed lines of the three kinds, a headline in
\* bold without a colon, a headline without text, a line of no kind, an empty line
\* and the first line of a failed request
InsightLines ==
    { <<"Headline Insight", ":", " ", "Sales up">>,
      <<"*", "*", "HEADLINE INSIGHT", " ", "1", "*", "*">>,
      <<"Headline Insight", ":">>,
      <<"Brief Explanation", ":", " ", "$", "100">>,
      <<"Actionable Recommendation", ":", " ", "Cut costs">>,
      <<"Sales up">>,
      <<>>,
      <<"Error generating insights", ":", " ", "timeout">> }

\* the lists of 0 to n lines drawn from L
Lists(L, n) == UNION {[1..k -> L] : k \in 0..n}

InitFormat ==
    /\ PipeIdle
    /\ InsIdle
    /\ KpiIdle
    /\ SessIdle
    /\ insights \in {NoInsights} \cup {InsightList(l) : l \in Lists(InsightLines, MaxLines)}
    /\ formatted = <<>>

\* formatted = format_insights_for_dashboard(insights)
FormatInsights ==
    /\ formatted = <<>>
    /\ formatted' = format_insights_for_dashboard(insights)
    /\ UNCHANGED <<pipeVars, kpiVars, insights, insVars, sessVars>>

NextFormat == FormatInsights

SpecFormat == InitFormat /\ [][NextFormat]_vars

----------------------------------------------------------------------------
(* generate_ai_insights and the insight sections of the page *)

\* What the insight service does with a request: creating the client raises, the
\* API call raises, or the call returns a reply whose content is None or a text
\* (held as its lines, the text split at the line breaks).
Failed(e) == [failure |-> e, content |-> NoInsights]
Reply(c) == [failure |-> None, content |-> c]

\* the lines of a reply: a headline in bold, a bullet with an explanation and a
\* preamble
ReplyLines ==
    { <<"*", "*", "Headline Insight", ":", " ", "Sales up", "*", "*">>,
      <<"-", " ", "Brief Explanation", ":", " ", "$", "100">>,
      <<"Here", " ", "are the insights", ":">> }

Outcomes ==
    {Failed("client"), Failed("api"), Reply(NoInsights)}
        \cup {Reply(InsightList(l)) : l \in Lists(ReplyLines, MaxReplyLines)}

\* the exception raised inside the try block, or None: a reply without content
\* fails at insights_text.split
RaisedInTry(o) ==
    IF o.failure # None THEN o.failure
    ELSE IF o.content.null THEN "parse" ELSE None

\* the condition of the list comprehension
KeptLine(line) ==
    /\ Strip(line) # <<>>
    /\ ~ \E w \in {"analysis", "here", "based"} : StartsWith(LowerText(line), w)

\* the list comprehension: line.strip().strip("*-").strip() of the lines kept
ParseReply(lines) ==
    LET kept == SelectSeq(lines, KeptLine)
    IN  [i \in 1..Len(kept) |-> Strip(StripChars(Strip(kept[i]), {"*", "-"}))]

\* the list of the except branch
ErrorLines(e) ==
    << <<"Error generating insights", ":", " ", e>>, <<"Please try again later">> >>

\* a variant of generate_ai_insights: no try/except
generate_ai_insights_unguarded(o) ==
    IF RaisedInTry(o) # None
    THEN [raised |-> RaisedInTry(o), value |-> <<>>]
    ELSE [raised |-> None, value |-> ParseReply(o.content.lines)]

\* what generate_ai_insights returns, or the exception it lets through
generate_ai_insights(o) ==
    IF RaisedInTry(o) # None
    THEN [raised |-> None, value |-> ErrorLines(RaisedInTry(o))]
    ELSE [raised |-> None, value |-> ParseReply(o.content.lines)]

\* a slot that holds None
StoredNone == [present |-> TRUE, null |-> TRUE, lines |-> <<>>]

\* a slot that holds a list
Stored(l) == [present |-> TRUE, null |-> FALSE, lines |-> l]

\* a variant of InitSlots: the slots set to None without the test
InitSlots_unconditional(ss) == [k \in Slots |-> StoredNone]

\* if "..._insights" not in st.session_state: st.session_state...._insights = None
InitSlots(ss) == [k \in Slots |-> IF ss[k].present THEN ss[k] ELSE StoredNone]

\* what the sections show: format_insights_for_dashboard(slot)[0] of a slot held
Render(ss) ==
    [k \in Slots |-> IF ss[k].present THEN format_insights_for_dashboard(ss[k])[1]
                                     ELSE <<>>]

\* The sections are reached by a page run whose P&L table has a row; the pipeline
\* before them is left out here.
InitInsights ==
    /\ PipeIdle
    /\ FmtIdle
    /\ SessIdle
    /\ InsIdle
    /\ KpiIdle

\* a page run without a click on a Generate button, on the same files or on files
\* uploaded anew
Rerun ==
    /\ session_state' = InitSlots(session_state)
    /\ rendered' = Render(session_state')
    /\ ipc' = "rendered"
    /\ UNCHANGED <<pipeVars, kpiVars, fmtVars, sessVars, request>>

\* a page run with a click on the Generate button of the slot k: the slot is
\* deleted, the request is sent and its result stored, the sections are shown
ClickGenerate(k) ==
    /\ ipc = "rendered"
    /\ \E o \in Outcomes :
          LET res == generate_ai_insights(o)
          IN  /\ request' = [slot |-> k, failure |-> RaisedInTry(o)]
              /\ IF res.raised = None
                 THEN /\ session_state' = [session_state EXCEPT ![k] = Stored(res.value)]
                      /\ rendered' = Render(session_state')
                      /\ ipc' = "rendered"
                 ELSE /\ session_state' = [session_state EXCEPT ![k] = Absent]
                      /\ rendered' = [j \in Slots |-> <<>>]
                      /\ ipc' = "aborted"
    /\ UNCHANGED <<pipeVars, kpiVars, fmtVars, sessVars>>

NextInsights ==
    \/ Rerun
    \/ \E k \in Slots : ClickGenerate(k)

SpecInsights == InitInsights /\ [][NextInsights]_vars

----------------------------------------------------------------------------
(* The page run of main() *)

Init ==
    /\ FmtIdle
    /\ InsIdle
    /\ KpiIdle
    /\ SessIdle
    /\ sales = <<>>
    /\ expenses = <<>>
    /\ coa = <<>>
    /\ pc = "upload"
    /\ error = None
    /\ transactions = <<>>
    /\ unmapped_categories = {}
    /\ unmapped_transactions = {}
    /\ pnl = <<>>
    /\ missing_accounts = {}

\* st.file_uploader(key='sales') and load_data: the Sales file is read whole
UploadSales ==
    /\ pc = "upload"
    /\ sales = <<>>
    /\ \E f \in Tables(SalesRows, MaxRows - 1) :
          /\ Len(f) + Len(expenses) <= MaxRows
          /\ sales' = f
    /\ UNCHANGED <<expenses, coa, pc, error, transactions, unmapped_categories,
                   unmapped_transactions, pnl, missing_accounts, pageVars>>

\* st.file_uploader(key='expenses') and load_data
UploadExpenses ==
    /\ pc = "upload"
    /\ expenses = <<>>
    /\ \E f \in Tables(ExpenseRows, MaxRows - 1) :
          /\ Len(f) + Len(sales) <= MaxRows
          /\ expenses' = f
    /\ UNCHANGED <<sales, coa, pc, error, transactions, unmapped_categories,
                   unmapped_transactions, pnl, missing_accounts, pageVars>>

\* st.file_uploader(key='coa') and load_data
UploadCoa ==
    /\ pc = "upload"
    /\ coa = <<>>
    /\ \E f \in Tables(CoaRows, MaxCoa) : coa' = f
    /\ UNCHANGED <<sales, expenses, pc, error, transactions, unmapped_categories,
                   unmapped_transactions, pnl, missing_accounts, pageVars>>

\* all([sales_file, expenses_file, coa_file])
AllFilesUploaded == sales # <<>> /\ expenses # <<>> /\ coa # <<>>

PrepareTransactions ==
    /\ pc = "upload"
    /\ AllFilesUploaded
    /\ LET res == prepare_transactions(sales, expenses, coa)
       IN  /\ pc' = IF res.raised = None THEN "prepared" ELSE "failed"
           /\ error' = res.raised
           /\ transactions' = res.ledger
           /\ unmapped_categories' = res.unmapped_categories
           /\ unmapped_transactions' = res.unmapped_transactions
           /\ sales' = res.arguments.sales
           /\ expenses' = res.arguments.expenses
           /\ coa' = res.arguments.coa
    /\ UNCHANGED <<pnl, missing_accounts, pageVars>>

GeneratePnl ==
    /\ pc = "prepared"
    /\ LET res == generate_pnl(transactions, coa)
       IN  /\ pnl' = res.pnl
           /\ missing_accounts' = res.missing_accounts
    /\ pc' = "done"
    /\ UNCHANGED <<sales, expenses, coa, error, transactions, unmapped_categories,
                   unmapped_transactions, pageVars>>

\* the KPI section: mom_growth = calculate_mom_growth(pnl)
CalculateKpis ==
    /\ pc = "done"
    /\ mom_growth' = calculate_mom_growth(pnl)
    /\ pc' = "kpis"
    /\ UNCHANGED <<sales, expenses, coa, error, transactions, unmapped_categories,
                   unmapped_transactions, pnl, missing_accounts, fmtVars, insVars,
                   sessVars, top_10, top_products, bottom_products>>

Next ==
    \/ UploadSales
    \/ UploadExpenses
    \/ UploadCoa
    \/ PrepareTransactions
    \/ GeneratePnl
    \/ CalculateKpis

Spec == Init /\ [][Next]_vars

----------------------------------------------------------------------------
(* The reconciliation section of the page, in concurrent sessions *)

\* the expense types of category_mapping, in the order of the rows of CleanUpload
ExpenseTypes ==
    <<"Salaries", "Supplies", "Marketing", "Delivery", "Rent", "Utilities", "Product Cost">>

\* uploads without any finding: a transaction of each mapped category and a COA
\* with an entry for each of them
CleanUpload ==
    [sales |-> << [Date |-> "2024-01-15", Category |-> "Jewelry", Product |-> "Ring",
                   Total |-> Num(1000), InvoiceNo |-> "INV-1"] >>,
     expenses |-> [k \in 1..Len(ExpenseTypes) |->
                     [Date |-> "2024-01-20", ExpenseType |-> ExpenseTypes[k],
                      Description |-> "monthly", Amount |-> Num(k)]],
     coa |-> << [Category |-> "Jewelry Sales", AccountType |-> "Revenue",
                 Account |-> Num(100)] >>
             \o [k \in 1..Len(ExpenseTypes) |->
                    [Category |-> ExpenseTypes[k],
                     AccountType |-> IF ExpenseTypes[k] = "Product Cost" THEN "COGS"
                                     ELSE "OPEX",
                     Account |-> Num(200 + k)]]]

\* the uploads of a session: one sale of any Category, one Rent expense, a COA of one
\* entry; or the uploads without any finding
SessionUploads ==
    [sales: Tables({r \in SalesRows : r.Date = "2024-01-15" /\ r.Product = "Ring"
                                        /\ r.Total = Num(1000)}, 1),
     expenses: Tables({r \in ExpenseRows : r.Date = "2024-01-20" /\ r.ExpenseType = "Rent"
                                              /\ r.Amount = Num(300)}, 1),
     coa: Tables({r \in CoaRows : r.Category \in {"Jewelry Sales", "Rent"}}, 1)]
    \cup {CleanUpload}

\* the P&L table of the page run on the uploads up
PnlOf(up) ==
    generate_pnl(prepare_transactions(up.sales, up.expenses, up.coa).ledger, up.coa).pnl

\* the findings of the page run on the uploads up, and the affected_transactions
\* of the section: transactions[transactions['Category'].isin(unmapped_categories)]
Findings(up) ==
    LET tx == prepare_transactions(up.sales, up.expenses, up.coa)
        res == generate_pnl(tx.ledger, up.coa)
    IN  [unmapped_categories |-> tx.unmapped_categories,
         affected_transactions |->
             SelectSeq(tx.ledger, LAMBDA r : r.Category \in tx.unmapped_categories),
         missing_accounts |-> res.missing_accounts,
         unmapped_transactions |-> tx.unmapped_transactions]

\* if unmapped_categories or missing_accounts or unmapped_transactions
HasFindings(f) ==
    f.unmapped_categories # {} \/ f.missing_accounts # {} \/ f.unmapped_transactions # {}

\* the rows of summary_df: one per kind of finding that is not empty
Summary(f) ==
    (IF f.unmapped_categories # {}
     THEN << [issue |-> "Unmapped Categories", missing |-> f.unmapped_categories,
              count |-> Cardinality(f.unmapped_categories)] >> ELSE <<>>)
    \o (IF f.missing_accounts # {}
        THEN << [issue |-> "Missing Account Types", missing |-> f.missing_accounts,
                 count |-> Cardinality(f.missing_accounts)] >> ELSE <<>>)
    \o (IF f.unmapped_transactions # {}
        THEN << [issue |-> "Categories Missing in Transactions",
                 missing |-> f.unmapped_transactions,
                 count |-> Cardinality(f.unmapped_transactions)] >> ELSE <<>>)

\* the workbook the ExcelWriter block writes: a sheet per kind of finding that is
\* not empty, and the sheet Summary
Workbook(f) ==
    [exists |-> TRUE,
     sheet_names |->
         (IF f.unmapped_categories # {}
          THEN {"Unmapped Categories", "Affected Transactions"} ELSE {})
         \cup (IF f.missing_accounts # {} THEN {"Missing Accounts"} ELSE {})
         \cup (IF f.unmapped_transactions # {} THEN {"Missing Categories"} ELSE {})
         \cup {"Summary"},
     unmapped_categories |-> f.unmapped_categories,
     affected_transactions |->
         IF f.unmapped_categories # {} THEN f.affected_transactions ELSE <<>>,
     missing_accounts |-> f.missing_accounts,
     missing_categories |-> f.unmapped_transactions,
     summary |-> Summary(f)]

\* The sessions run main() in threads of one server process, in one working directory.
InitSessions ==
    /\ PipeIdle
    /\ FmtIdle
    /\ InsIdle
    /\ KpiIdle
    /\ SessIdle

\* the page run of the session u up to the end of the ExcelWriter block: the findings
\* of its uploads, and with findings the workbook written to reconciliation_report.xlsx.
\* On an empty P&L table pnl['Net Profit'].idxmax() raises in the trends section and
\* the run ends there, before the reconciliation section and the exports.
RunToReport(u) ==
    /\ spc[u] \in {"idle", "done", "aborted"}
    /\ \E up \in SessionUploads :
          LET f == Findings(up)
          IN  /\ findings' = [findings EXCEPT ![u] = f]
              /\ IF PnlOf(up) = <<>>
                 THEN /\ spc' = [spc EXCEPT ![u] = "aborted"]
                      /\ offered' = [offered EXCEPT ![u] = NoFile]
                      /\ UNCHANGED report_file
                 ELSE IF HasFindings(f)
                 THEN /\ report_file' = Workbook(f)
                      /\ spc' = [spc EXCEPT ![u] = "written"]
                      /\ UNCHANGED offered
                 ELSE /\ spc' = [spc EXCEPT ![u] = "done"]
                      /\ offered' = [offered EXCEPT ![u] = NoFile]
                      /\ UNCHANGED report_file
    /\ UNCHANGED <<pipeVars, kpiVars, fmtVars, insVars>>

\* open('reconciliation_report.xlsx', 'rb') and st.download_button(data=f): the
\* session u hands the file's content of this moment to its download button
OpenReport(u) ==
    /\ spc[u] = "written"
    /\ offered' = [offered EXCEPT ![u] = report_file]
    /\ spc' = [spc EXCEPT ![u] = "done"]
    /\ UNCHANGED <<pipeVars, kpiVars, fmtVars, insVars, findings, report_file>>

NextSessions ==
    \E u \in Sessions :
        \/ RunToReport(u)
        \/ OpenReport(u)

SpecSessions == InitSessions /\ [][NextSessions]_vars

----------------------------------------------------------------------------
(* The page run on a Sales file that holds one of its rows twice *)

\* the Expenses and COA files are uploaded, the Sales file is not yet
InitRepeated ==
    /\ FmtIdle
    /\ InsIdle
    /\ KpiIdle
    /\ SessIdle
    /\ sales = <<>>
    /\ expenses \in Tables(ExpenseRows, 1)
    /\ coa \in Tables(CoaRows, MaxCoa)
    /\ pc = "upload"
    /\ error = None
    /\ transactions = <<>>
    /\ unmapped_categories = {}
    /\ unmapped_transactions = {}
    /\ pnl = <<>>
    /\ missing_accounts = {}

\* st.file_uploader(key='sales') and load_data: a Sales file whose last row repeats
\* one of the rows before it
UploadSalesRepeated ==
    /\ pc = "upload"
    /\ sales = <<>>
    /\ \E f \in Tables(SalesRows, MaxRows - 1) :
          \E k \in 1..Len(f) : sales' = Append(f, f[k])
    /\ UNCHANGED <<expenses, coa, pc, error, transactions, unmapped_categories,
                   unmapped_transactions, pnl, missing_accounts, pageVars>>

NextRepeated ==
    \/ UploadSalesRepeated
    \/ PrepareTransactions
    \/ GeneratePnl

SpecRepeated == InitRepeated /\ [][NextRepeated]_vars

----------------------------------------------------------------------------
(* The dashboard and the batch script on the same files *)

\* a COA file with an entry of each of the three account types the batch script's
\* generate_pnl reads
CompleteCoa ==
    << [Category |-> "Jewelry Sales", AccountType |-> "Revenue", Account |-> Num(100)],
       [Category |-> "Rent",          AccountType |-> "OPEX",    Account |-> Num(200)],
       [Category |-> "Product Cost",  AccountType |-> "COGS",    Account |-> Num(300)] >>

InitBatch ==
    /\ FmtIdle
    /\ InsIdle
    /\ KpiIdle
    /\ SessIdle
    /\ sales = <<>>
    /\ expenses = <<>>
    /\ coa = CompleteCoa
    /\ pc = "upload"
    /\ error = None
    /\ transactions = <<>>
    /\ unmapped_categories = {}
    /\ unmapped_transactions = {}
    /\ pnl = <<>>
    /\ missing_accounts = {}

NextBatch ==
    \/ UploadSales
    \/ UploadExpenses
    \/ PrepareTransactions
    \/ GeneratePnl

SpecBatch == InitBatch /\ [][NextBatch]_vars

----------------------------------------------------------------------------
(* The product performance tabs of the page *)

\* the products of the Sales files of this section
Products == <<"P1", "P2", "P3", "P4", "P5", "P6", "P7", "P8">>

\* the orders of the numbers 1..n
Orders(n) == {f \in [1..n -> 1..n] : \A i, j \in 1..n : i # j => f[i] # f[j]}

InitProducts ==
    /\ FmtIdle
    /\ InsIdle
    /\ KpiIdle
    /\ SessIdle
    /\ sales = <<>>
    /\ expenses \in Tables({r \in ExpenseRows : r.Date = "2024-01-20"
                                /\ r.ExpenseType = "Rent" /\ r.Amount = Num(300)}, 1)
    /\ coa \in Tables({r \in CoaRows : r.Category = "Jewelry Sales"}, 1)
    /\ pc = "upload"
    /\ error = None
    /\ transactions = <<>>
    /\ unmapped_categories = {}
    /\ unmapped_transactions = {}
    /\ pnl = <<>>
    /\ missing_accounts = {}

\* st.file_uploader(key='sales') and load_data: a Sales file with a row for each of
\* MaxProducts products, all of different Totals, and possibly a second row for
\* one of the products
UploadSalesProducts ==
    /\ pc = "upload"
    /\ sales = <<>>
    /\ \E f \in Orders(MaxProducts) : \E extra \in 0..MaxProducts :
          LET rows == [i \in 1..MaxProducts |->
                         [Date |-> "2024-01-15", Category |-> "Jewelry",
                          Product |-> Products[i], Total |-> Num(100 * f[i]),
                          InvoiceNo |-> "INV-1"]]
          IN  sales' = IF extra = 0 THEN rows
                       ELSE Append(rows, [rows[extra] EXCEPT !.Total = Num(50)])
    /\ UNCHANGED <<expenses, coa, pc, error, transactions, unmapped_categories,
                   unmapped_transactions, pnl, missing_accounts, pageVars>>

\* the tabs "Product Performance" and "Performance Insights": the chart of
\* product_perf.head(10), the list of product_perf.head(5) sorted descending and
\* the list of product_perf.tail(5)
ProductPerformance ==
    /\ pc = "done"
    /\ LET perf == product_perf(transactions)
       IN  /\ top_10' = head(perf, 10)
           /\ top_products' = SortByRevenue(Range(head(perf, 5)), FALSE)
           /\ bottom_products' = tail(perf, 5)
    /\ pc' = "products"
    /\ UNCHANGED <<sales, expenses, coa, error, transactions, unmapped_categories,
                   unmapped_transactions, pnl, missing_accounts, fmtVars, insVars,
                   sessVars, mom_growth>>

NextProducts ==
    \/ UploadSalesProducts
    \/ PrepareTransactions
    \/ GeneratePnl
    \/ ProductPerformance

SpecProducts == InitProducts /\ [][NextProducts]_vars

----------------------------------------------------------------------------
(* Properties of the pipeline *)

Prepared == pc \in {"prepared", "done", "kpis"}

Ran == pc # "upload"

\* the sum of the ledger Amounts of a period and AccountType (null Amounts count 0)
LedgerTotal(period, acct) ==
    SumAmounts(SelectSeq(transactions, LAMBDA r : r.Period = period /\ r.AccountType = acct))

\* the sum of the ledger Amounts of an AccountType over the whole ledger
LedgerGrandTotal(acct) ==
    SumAmounts(SelectSeq(transactions, LAMBDA r : r.AccountType = acct))

RECURSIVE ColumnSum(_, _)
\* the sum of a column of the P&L table
ColumnSum(rows, col) ==
    IF rows = <<>> THEN 0 ELSE Head(rows)[col] + ColumnSum(Tail(rows), col)

StdSales == [i \in 1..Len(sales) |-> StandardizeSales(sales[i])]
StdExpenses == [i \in 1..Len(expenses) |-> StandardizeExpense(expenses[i])]

\* C1: in every P&L row, Expense = |OPEX| + |COGS| of the period's ledger sums and
\* Net Profit = Revenue - Expense, whatever the signs of the two sums
C1_ExpenseIsSumOfMagnitudes ==
    pc = "done" =>
        \A i \in 1..Len(pnl) :
            /\ pnl[i].Expense = Abs(LedgerTotal(pnl[i].Period, "OPEX"))
                                    + Abs(LedgerTotal(pnl[i].Period, "COGS"))
            /\ pnl[i].NetProfit = pnl[i].Revenue - pnl[i].Expense

\* C2: every Expense row of the ledger has Amount <= 0 or null, and every row's
\* Source_Type is Sales or Expense
C2_ExpenseAmountsNotPositive ==
    Prepared =>
        \A i \in 1..Len(transactions) :
            /\ transactions[i].Source_Type \in {"Sales", "Expense"}
            /\ transactions[i].Source_Type = "Expense" =>
                   (transactions[i].Amount.tag = "nan" \/ transactions[i].Amount.val <= 0)

AllDatesParseable ==
    /\ \A i \in 1..Len(sales) : Parseable(sales[i].Date)
    /\ \A i \in 1..Len(expenses) : Parseable(expenses[i].Date)

AllAmountsNumeric ==
    /\ \A i \in 1..Len(sales) : sales[i].Total.tag # "str"
    /\ \A i \in 1..Len(expenses) : expenses[i].Amount.tag # "str"

\* C3: a non-numeric Amount cell (the Date cells being fine) never fails the build:
\* the run gets past prepare_transactions and the cell is null in the ledger
C3_NonNumericAmountBecomesNull ==
    (Ran /\ AllDatesParseable /\ ~AllAmountsNumeric) =>
        /\ error = None
        /\ \E i \in 1..Len(transactions) : transactions[i].Amount = NaN

\* the null marker of a date column
NaT == [year |-> 0, month |-> 0, day |-> 0]

\* C4: an unparseable Date cell (the Amount cells being numeric) never fails the
\* build: the run gets past prepare_transactions and the cell is null in the ledger
C4_UnparseableDateBecomesNull ==
    (Ran /\ AllAmountsNumeric /\ ~AllDatesParseable) =>
        /\ error = None
        /\ \E i \in 1..Len(transactions) : transactions[i].Date = NaT

\* C5: the Periods of the P&L table are exactly the Periods of the ledger
C5_PnlPeriodsAreLedgerPeriods ==
    pc = "done" =>
        {pnl[i].Period : i \in 1..Len(pnl)}
            = {transactions[i].Period : i \in 1..Len(transactions)}

RECURSIVE SumOfMagnitudes(_, _)
\* the sum over the periods P of |the period's ledger sum of the AccountType|
SumOfMagnitudes(P, acct) ==
    IF P = {} THEN 0
    ELSE LET p == CHOOSE x \in P : TRUE
         IN  Abs(LedgerTotal(p, acct)) + SumOfMagnitudes(P \ {p}, acct)

LedgerPeriods == {transactions[i].Period : i \in 1..Len(transactions)}

ComesFrom(row, r) ==
    /\ row.Source_Type = r.Source_Type
    /\ row.Date = ParseDate(r.Date)
    /\ row.Category = r.Category
    /\ row.Product = r.Product
    /\ row.Description = r.Description
    /\ row.InvoiceNo = r.InvoiceNo
    /\ row.Amount = to_numeric(MakeExpensesNegative(r).Amount)

\* C7: every input row that survives the deduplication of its own table is in the
\* ledger: the deduplication after the join removes fan-out rows only
C7_PerSourceSurvivorsReachLedger ==
    Prepared =>
        \A r \in Range(drop_duplicates(StdSales, SalesKey))
                    \cup Range(drop_duplicates(StdExpenses, ExpenseKey)) :
            \E i \in 1..Len(transactions) : ComesFrom(transactions[i], r)

\* the columns of the natural keys in the uploaded files
NaturalKeySales == <<"Date", "InvoiceNo", "Product", "Total">>
NaturalKeyExpenses == <<"Date", "ExpenseType", "Description", "Amount">>

\* the rows of an uploaded table that repeat the natural key of no earlier row
FirstOccurrences(s, key) ==
    Pick(s, {i \in 1..Len(s) :
                ~\E j \in 1..(i - 1) : \A k \in 1..Len(key) : s[j][key[k]] = s[i][key[k]]})

\* C8: the run on the uploaded tables gives what a run on the same tables with their
\* natural-key duplicates already removed (first occurrence kept) gives: the same
\* ledger, the same findings, the same failure
C8_DeduplicationIdempotent ==
    Ran =>
        LET again == prepare_transactions(FirstOccurrences(sales, NaturalKeySales),
                                          FirstOccurrences(expenses, NaturalKeyExpenses),
                                          coa)
        IN  /\ error = again.raised
            /\ transactions = again.ledger
            /\ unmapped_categories = again.unmapped_categories
            /\ unmapped_transactions = again.unmapped_transactions

\* a built ledger from a Sales table holding two different rows with one natural key
C8_Witness ==
    /\ Prepared
    /\ Len(sales) = 2
    /\ sales[1] # sales[2]
    /\ \A k \in 1..Len(NaturalKeySales) :
          sales[1][NaturalKeySales[k]] = sales[2][NaturalKeySales[k]]
    /\ Cardinality({i \in 1..Len(transactions) : transactions[i].Source_Type = "Sales"}) = 1

InputCategories ==
    {sales[i].Category : i \in 1..Len(sales)}
        \cup {expenses[i].ExpenseType : i \in 1..Len(expenses)}

LedgerCategories == {transactions[i].Category : i \in 1..Len(transactions)}

\* C9 as stated: a key of category_mapping is in unmapped_transactions exactly when no
\* input row has that Category, and a Category is in unmapped_categories exactly when
\* some input row has it and it is no key
C9_FindingsFromInputRows ==
    Prepared =>
        /\ unmapped_transactions = DOMAIN category_mapping \ InputCategories
        /\ unmapped_categories = InputCategories \ DOMAIN category_mapping

\* C9 amended: the same with the rows of the returned ledger in place of the input
\* rows (a row removed by a deduplication does not count)
C9_FindingsFromLedgerRows ==
    Prepared =>
        /\ unmapped_transactions = DOMAIN category_mapping \ LedgerCategories
        /\ unmapped_categories = LedgerCategories \ DOMAIN category_mapping

\* a built ledger that lost the only row of an input Category to a deduplication
C9_Witness ==
    /\ Prepared
    /\ InputCategories \ LedgerCategories # {}
    /\ unmapped_transactions # DOMAIN category_mapping \ InputCategories

NoAccountTypeFor(c) ==
    LET I == {i \in 1..Len(coa) : coa[i].Category = c}
    IN  I = {} \/ coa[CHOOSE i \in I : \A j \in I : i <= j].AccountType = None

\* every entry of the uploaded COA has a Category
CoaCategoriesPresent == \A i \in 1..Len(coa) : coa[i].Category # None

C11_FindingsDisjoint ==
    Ran => unmapped_categories \cap unmapped_transactions = {}

\* a built ledger with findings of both kinds
C11_Witness ==
    /\ Prepared
    /\ unmapped_categories # {}
    /\ unmapped_transactions # {}

\* the ledger without its row i
LedgerWithout(i) == Pick(transactions, (1..Len(transactions)) \ {i})

\* C12: a ledger row whose Category is no key of category_mapping has a null
\* AccountType and a null Account, its Category is in unmapped_categories, and the
\* P&L table is what it would be without the row: the row adds nothing to Revenue,
\* OPEX, COGS, Expense or Net Profit of any P&L row
C12_UnmappedRowContributesNothing ==
    pc = "done" =>
        \A i \in 1..Len(transactions) :
            transactions[i].Category \notin DOMAIN category_mapping =>
                /\ transactions[i].AccountType = None
                /\ transactions[i].Account = NaN
                /\ transactions[i].Category \in unmapped_categories
                /\ generate_pnl(LedgerWithout(i), coa).pnl = pnl

\* the non-null AccountType values of the ledger
LedgerAccountTypes == {transactions[i].AccountType : i \in 1..Len(transactions)} \ {None}

\* the non-null AccountType values of the uploaded COA
CoaAccountTypes == {coa[i].AccountType : i \in 1..Len(coa)} \ {None}

\* C13: missing_accounts is the set of the non-null AccountType values of the COA
\* that no ledger row carries, and a Revenue, OPEX or COGS that no ledger row
\* carries is 0 in every P&L row
C13_MissingAccounts ==
    pc = "done" =>
        /\ missing_accounts = CoaAccountTypes \ LedgerAccountTypes
        /\ \A T \in {"Revenue", "OPEX", "COGS"} \ LedgerAccountTypes :
              \A i \in 1..Len(pnl) : pnl[i][T] = 0

\* a P&L table with rows, from a COA that declares COGS and a ledger without a COGS
\* row
C13_Witness ==
    /\ pc = "done"
    /\ Len(pnl) > 0
    /\ "COGS" \in missing_accounts
    /\ \A i \in 1..Len(pnl) : pnl[i].COGS = 0

\* C14: in every P&L row Margin (%) is a defined number: Net Profit x 100 when the
\* row's Revenue is 0, Net Profit / Revenue x 100 otherwise
C14_MarginDefined ==
    pc = "done" =>
        \A i \in 1..Len(pnl) :
            /\ pnl[i].Margin.den # 0
            /\ pnl[i].Revenue = 0 =>
                   pnl[i].Margin.num = pnl[i].NetProfit * 100 * pnl[i].Margin.den
            /\ pnl[i].Revenue # 0 =>
                   pnl[i].Margin.num * pnl[i].Revenue
                       = pnl[i].NetProfit * 100 * pnl[i].Margin.den

\* a P&L table with a row without Revenue and with a loss, next to a row with Revenue
C14_Witness ==
    /\ pc = "done"
    /\ \E i, j \in 1..Len(pnl) :
          /\ pnl[i].Revenue = 0
          /\ pnl[i].NetProfit < 0
          /\ pnl[j].Revenue # 0

\* the uploads of the scenario: one Jewelry sale of 1000 on 2024-01-15, one Rent
\* expense of 300 on 2024-01-20, a COA of Jewelry Sales (Revenue) and Rent (OPEX)
C15_Scenario ==
    /\ Len(sales) = 1
    /\ sales[1].Date = "2024-01-15"
    /\ sales[1].Category = "Jewelry"
    /\ sales[1].Total = Num(1000)
    /\ Len(expenses) = 1
    /\ expenses[1].Date = "2024-01-20"
    /\ expenses[1].ExpenseType = "Rent"
    /\ expenses[1].Amount = Num(300)
    /\ coa = << [Category |-> "Jewelry Sales", AccountType |-> "Revenue", Account |-> Num(100)],
                [Category |-> "Rent", AccountType |-> "OPEX", Account |-> Num(200)] >>

\* C15: on the uploads of the scenario the ledger has exactly 2 rows, with Amounts 1000
\* and -300, and the P&L table has exactly one row, for 2024-01, with Revenue 1000,
\* OPEX 300, COGS 0, Expense 300, Net Profit 700 and Margin 70
C15_ScenarioResult ==
    (C15_Scenario /\ Ran) =>
        /\ error = None
        /\ Len(transactions) = 2
        /\ transactions[1].Amount = Num(1000)
        /\ transactions[2].Amount = Num(-300)
        /\ pc = "done" =>
              /\ Len(pnl) = 1
              /\ pnl[1].Period = "2024-01"
              /\ pnl[1].Year = 2024
              /\ pnl[1].Month = 1
              /\ pnl[1].Revenue = 1000
              /\ pnl[1].OPEX = 300
              /\ pnl[1].COGS = 0
              /\ pnl[1].Expense = 300
              /\ pnl[1].NetProfit = 700
              /\ pnl[1].Margin.den # 0
              /\ pnl[1].Margin.num = 70 * pnl[1].Margin.den

\* the P&L table of the scenario
C15_Witness ==
    /\ C15_Scenario
    /\ pc = "done"
    /\ Len(pnl) = 1

\* the ledger rows that carry the natural key of the standardised input row r
LedgerRowsOfKey(r) ==
    {k \in 1..Len(transactions) :
        /\ transactions[k].Source_Type = r.Source_Type
        /\ transactions[k].Date = ParseDate(r.Date)
        /\ transactions[k].Amount = to_numeric(MakeExpensesNegative(r).Amount)
        /\ IF r.Source_Type = "Sales"
           THEN /\ transactions[k].InvoiceNo = r.InvoiceNo
                /\ transactions[k].Product = r.Product
           ELSE /\ transactions[k].Category = r.Category
                /\ transactions[k].Description = r.Description}

\* the rows i < j of the standardised table s are identical on the columns key: then
\* exactly one ledger row carries their key, and it is the first row of s with it
CollapseToFirst(s, key) ==
    \A i, j \in 1..Len(s) :
        (i < j /\ KeyOf(s[i], key) = KeyOf(s[j], key)) =>
            LET first == CHOOSE f \in 1..Len(s) :
                            /\ KeyOf(s[f], key) = KeyOf(s[i], key)
                            /\ \A g \in 1..(f - 1) : KeyOf(s[g], key) # KeyOf(s[i], key)
            IN  /\ Cardinality(LedgerRowsOfKey(s[i])) = 1
                /\ \A k \in LedgerRowsOfKey(s[i]) : ComesFrom(transactions[k], s[first])

\* C16: Sales rows identical on (Date, InvoiceNo, Product, Amount) are exactly one
\* ledger row, Expense rows identical on (Date, Category, Description, Amount) are
\* exactly one ledger row, and that row is the first of them in input order
C16_DuplicatesCollapseToFirst ==
    Prepared =>
        /\ CollapseToFirst(StdSales, SalesKey)
        /\ CollapseToFirst(StdExpenses, ExpenseKey)

\* C20: format_insights_for_dashboard returns a list of exactly one text for every
\* list of lines and for None, and that text is "No insights available." for None
\* and for the empty list
C20_FormatTotal ==
    formatted # <<>> =>
        /\ Len(formatted) = 1
        /\ formatted[1] \in Seq(STRING)
        /\ (insights.null \/ insights.lines = <<>>)
               => formatted = << <<"No insights available.">> >>

\* the formatter has returned on None
C20_Witness ==
    /\ insights = NoInsights
    /\ formatted = << <<"No insights available.">> >>

\* C18: after a request that failed (at the client, at the API call or at the
\* parsing of the reply) the page run has gone on and the slot of the request holds
\* a list of exactly two lines, "Error generating insights: ..." and "Please try
\* again later"
C18_FailureBecomesTwoLines ==
    request.failure # None =>
        /\ ipc = "rendered"
        /\ session_state[request.slot].present
        /\ ~session_state[request.slot].null
        /\ Len(session_state[request.slot].lines) = 2
        /\ SubSeq(session_state[request.slot].lines[1], 1, 3)
               = <<"Error generating insights", ":", " ">>
        /\ session_state[request.slot].lines[2] = <<"Please try again later">>

\* a reply without content has failed the parsing and the page is shown
C18_Witness ==
    /\ request.failure = "parse"
    /\ ipc = "rendered"
    /\ Len(session_state[request.slot].lines) = 2

\* C19: after a failed request the text shown in the section of the request holds the
\* error line that generate_ai_insights returned
C19_ErrorShown ==
    (request.failure # None /\ ipc = "rendered") =>
        \E i \in 1..Len(rendered[request.slot]) :
            rendered[request.slot][i] = "Error generating insights"

----------------------------------------------------------------------------
(* Properties of the KPI section *)

\* the rows of the P&L table no other row of which is of a later (Year, Month)
LatestRows(rows) ==
    {r \in rows : \A q \in rows :
        ~KeyLess(<<r.Year, r.Month>>, <<q.Year, q.Month>>)}

\* C21: the month-over-month growth is 0 when the P&L table has fewer than two rows
\* or the Revenue of the period before the latest is 0, and otherwise
\* (latest - prior) / prior * 100, latest and prior being the Revenue of the two
\* latest periods by (Year, Month)
C21_MomGrowthOfLatestPeriods ==
    pc = "kpis" =>
        IF Len(pnl) < 2 THEN mom_growth = NoGrowth
        ELSE \E latest \in LatestRows(Range(pnl)) :
                \E prior \in LatestRows(Range(pnl) \ {latest}) :
                    /\ LatestRows(Range(pnl)) = {latest}
                    /\ LatestRows(Range(pnl) \ {latest}) = {prior}
                    /\ mom_growth =
                          IF prior.Revenue = 0 THEN NoGrowth
                          ELSE [num |-> (latest.Revenue - prior.Revenue) * 100,
                                den |-> prior.Revenue]

\* two periods, Revenue in the earlier one and a different Revenue in the later one
C21_Witness ==
    /\ pc = "kpis"
    /\ Len(pnl) = 2
    /\ pnl[1].Revenue # 0
    /\ mom_growth.num # 0

----------------------------------------------------------------------------
(* Properties of the P&L table and of the ledger, continued *)

\* C22: the P&L table has one row per (Year, Month, Period), each taken from the
\* ledger, its rows are in strictly ascending order of (Year, Month), and no two
\* rows share a Period
C22_OneRowPerPeriodAscending ==
    pc \in {"done", "kpis"} =>
        /\ \A i \in 1..Len(pnl) :
              \E j \in 1..Len(transactions) :
                  /\ transactions[j].Year = pnl[i].Year
                  /\ transactions[j].Month = pnl[i].Month
                  /\ transactions[j].Period = pnl[i].Period
        /\ \A i, j \in 1..Len(pnl) :
              i < j =>
                  /\ \/ pnl[i].Year < pnl[j].Year
                     \/ (pnl[i].Year = pnl[j].Year /\ pnl[i].Month < pnl[j].Month)
                  /\ pnl[i].Period # pnl[j].Period
        /\ \A j \in 1..Len(transactions) :
              transactions[j].AccountType # None =>
                  Cardinality({i \in 1..Len(pnl) :
                      /\ pnl[i].Year = transactions[j].Year
                      /\ pnl[i].Month = transactions[j].Month
                      /\ pnl[i].Period = transactions[j].Period}) = 1

\* a P&L table of two periods, from a ledger of three rows
C22_Witness ==
    /\ pc = "done"
    /\ Len(pnl) = 2
    /\ Len(transactions) = 3

\* C29: in every row of the P&L table OPEX >= 0 and Expense >= 0, hence
\* Net Profit <= Revenue
C29_MagnitudesNotNegative ==
    pc \in {"done", "kpis"} =>
        \A i \in 1..Len(pnl) :
            /\ pnl[i].OPEX >= 0
            /\ pnl[i].Expense >= 0
            /\ pnl[i].NetProfit <= pnl[i].Revenue

\* a period with Revenue whose ledger sum of OPEX is negative
C29_Witness ==
    /\ pc = "done"
    /\ \E i \in 1..Len(pnl) :
          /\ LedgerTotal(pnl[i].Period, "OPEX") < 0
          /\ pnl[i].Revenue > 0
          /\ pnl[i].NetProfit < pnl[i].Revenue

\* the positions of the COA entries of the Category the ledger row r was joined on
CoaEntriesOf(r) == {k \in 1..Len(coa) : coa[k].Category = r.Category_COA}

\* C30: no two ledger rows have the same (Date, InvoiceNo, Amount, Source_Type), the
\* ledger has at most as many rows as the Sales and Expenses files together, and a
\* ledger row whose Category has COA entries carries the AccountType and Account of
\* the first of them
C30_NoFanOutInLedger ==
    Prepared =>
        /\ \A i, j \in 1..Len(transactions) :
              i # j =>
                  <<transactions[i].Date, transactions[i].InvoiceNo,
                    transactions[i].Amount, transactions[i].Source_Type>>
                  # <<transactions[j].Date, transactions[j].InvoiceNo,
                      transactions[j].Amount, transactions[j].Source_Type>>
        /\ Len(transactions) <= Len(sales) + Len(expenses)
        /\ \A i \in 1..Len(transactions) :
              CoaEntriesOf(transactions[i]) # {} =>
                  \E k \in CoaEntriesOf(transactions[i]) :
                      /\ \A l \in CoaEntriesOf(transactions[i]) : k <= l
                      /\ transactions[i].AccountType = coa[k].AccountType
                      /\ transactions[i].Account = coa[k].Account

\* a COA with two entries of different Accounts for the Category of a ledger row
C30_Witness ==
    /\ Prepared
    /\ \E i \in 1..Len(transactions) :
          /\ Cardinality(CoaEntriesOf(transactions[i])) = 2
          /\ coa[1].Account # coa[2].Account

\* the standardized input rows in the order of the concatenation
StdInputs == StdSales \o StdExpenses

\* C25: in the ledger every Sales row precedes every Expense row, and the rows are
\* in the order of the input rows they come from
C25_InsertionOrder ==
    Prepared =>
        /\ \A i, j \in 1..Len(transactions) :
              (transactions[i].Source_Type = "Sales"
                    /\ transactions[j].Source_Type = "Expense") => i < j
        /\ \E f \in [1..Len(transactions) -> 1..Len(StdInputs)] :
              /\ \A i \in 1..Len(transactions) :
                    ComesFrom(transactions[i], StdInputs[f[i]])
              /\ \A i, j \in 1..Len(transactions) : i < j => f[i] < f[j]

\* a ledger of two different Sales rows followed by an Expense row
C25_Witness ==
    /\ Prepared
    /\ Len(transactions) = 3
    /\ transactions[1].Source_Type = "Sales"
    /\ transactions[2].Source_Type = "Sales"
    /\ transactions[1] # transactions[2]
    /\ transactions[3].Source_Type = "Expense"

LedgerColumns ==
    {"Date", "Category", "Product", "Description", "Amount", "InvoiceNo",
     "Source_Type", "Category_COA", "AccountType", "Account", "Year", "Month"}

\* C23: for the same files the batch script yields the ledger rows of the dashboard
\* and, per (Year, Month), the Revenue, Expense and Net Profit of the dashboard
C23_BatchEqualsDashboard ==
    pc \in {"done", "kpis"} =>
        LET batch == load_and_clean_data(sales, expenses, coa)
            batch_pnl == batch_generate_pnl(batch.ledger, coa)
        IN  /\ batch.raised = None
            /\ Len(batch.ledger) = Len(transactions)
            /\ \A i \in 1..Len(transactions) : \A f \in LedgerColumns :
                  batch.ledger[i][f] = transactions[i][f]
            /\ batch_pnl.raised = None
            /\ Len(batch_pnl.pnl) = Len(pnl)
            /\ \A i \in 1..Len(pnl) :
                  /\ batch_pnl.pnl[i].Year = pnl[i].Year
                  /\ batch_pnl.pnl[i].Month = pnl[i].Month
                  /\ batch_pnl.pnl[i].Revenue = pnl[i].Revenue
                  /\ batch_pnl.pnl[i].Expense = pnl[i].Expense
                  /\ batch_pnl.pnl[i].NetProfit = pnl[i].NetProfit

----------------------------------------------------------------------------
(* Properties of the reconciliation section, continued *)

\* the number of kinds of finding of f that are not empty
NonEmptyFindings(f) ==
    (IF f.unmapped_categories # {} THEN 1 ELSE 0)
        + (IF f.missing_accounts # {} THEN 1 ELSE 0)
        + (IF f.unmapped_transactions # {} THEN 1 ELSE 0)

\* C24: a page run produces the reconciliation section and its workbook exactly when
\* one of its findings is not empty; the workbook has the sheets Unmapped Categories
\* and Affected Transactions iff unmapped_categories is not empty, Missing Accounts
\* iff missing_accounts is not empty, Missing Categories iff unmapped_transactions
\* is not empty, and the sheet Summary with a row per finding that is not empty;
\* and the run goes on to the rest of the page whatever the findings are
C24_ReportExactlyWithFindings ==
    [][\A u \in Sessions :
          RunToReport(u) =>
              /\ spc'[u] # "aborted"
              /\ (spc'[u] = "written") <=> HasFindings(findings'[u])
              /\ (spc'[u] = "written") =>
                    /\ report_file'.exists
                    /\ ("Unmapped Categories" \in report_file'.sheet_names)
                          <=> (findings'[u].unmapped_categories # {})
                    /\ ("Affected Transactions" \in report_file'.sheet_names)
                          <=> (findings'[u].unmapped_categories # {})
                    /\ ("Missing Accounts" \in report_file'.sheet_names)
                          <=> (findings'[u].missing_accounts # {})
                    /\ ("Missing Categories" \in report_file'.sheet_names)
                          <=> (findings'[u].unmapped_transactions # {})
                    /\ "Summary" \in report_file'.sheet_names
                    /\ Len(report_file'.summary) = NonEmptyFindings(findings'[u])]_vars

----------------------------------------------------------------------------
(* Properties of the insight sections, continued *)

\* the value a slot holds: a slot not yet set counts as None, the value lines 261-266
\* give it before any section reads it
SlotValue(s) == IF s.present /\ ~s.null THEN s.lines ELSE <<None>>

\* C28: an insight slot changes value only in a page run with a click on its own
\* Generate button; such a run leaves the other two slots as they were, a run without
\* a click leaves all three as they were; and a section whose slot was never
\* generated shows "No insights available."
C28_SlotChangesOnlyOnOwnClick ==
    /\ [](ipc = "rendered" =>
            \A k \in Slots :
                SlotValue(session_state[k]) = <<None>> =>
                    rendered[k] = <<"No insights available.">>)
    /\ [][/\ \A k \in Slots :
                SlotValue(session_state'[k]) # SlotValue(session_state[k]) =>
                    ClickGenerate(k)
          /\ \A k \in Slots :
                ClickGenerate(k) =>
                    \A j \in Slots \ {k} :
                        SlotValue(session_state'[j]) = SlotValue(session_state[j])
          /\ Rerun =>
                \A k \in Slots :
                    SlotValue(session_state'[k]) = SlotValue(session_state[k])]_vars

\* two sections hold different insights, the last one generated after the other, and
\* the third was never generated and shows the placeholder
C28_Witness ==
    /\ ipc = "rendered"
    /\ request.slot = "revenue_insights"
    /\ SlotValue(session_state["financial_insights"]) # <<None>>
    /\ SlotValue(session_state["revenue_insights"]) # <<None>>
    /\ SlotValue(session_state["financial_insights"])
          # SlotValue(session_state["revenue_insights"])
    /\ SlotValue(session_state["expense_insights"]) = <<None>>
    /\ rendered["expense_insights"] = <<"No insights available.">>

----------------------------------------------------------------------------
(* Properties of the product performance tabs *)

\* the Revenue of each product: the sum of the Amounts of its Sales rows in the ledger
ProductTotals ==
    {[Product |-> p,
      Revenue |-> SumAmounts(SelectSeq(transactions, LAMBDA r :
                      r.Source_Type = "Sales" /\ r.Product = p))] :
        p \in {transactions[i].Product : i \in 1..Len(transactions)} \ {None}}

\* the n products of the highest Revenue, and the n of the lowest
Highest(n) ==
    {t.Product : t \in {x \in ProductTotals :
        Cardinality({y \in ProductTotals : y.Revenue > x.Revenue}) < n}}
Lowest(n) ==
    {t.Product : t \in {x \in ProductTotals :
        Cardinality({y \in ProductTotals : y.Revenue < x.Revenue}) < n}}

\* the products of the rows of a list
Shown(rows) == {rows[i].Product : i \in 1..Len(rows)}

\* C27: with more than five different Revenue totals, "Top 5 Revenue Generators"
\* shows the five products of the highest Revenue, "Top 10 Products by Revenue" the
\* ten of the highest, and "Bottom 5 Products" the five of the lowest
C27_TopAndBottomProducts ==
    (pc = "products" /\ Cardinality({t.Revenue : t \in ProductTotals}) > 5) =>
        /\ Shown(top_products) = Highest(5)
        /\ Shown(top_10) = Highest(10)
        /\ Shown(bottom_products) = Lowest(5)

====
